---------------------------- MODULE Spec2Model ----------------------------
(***************************************************************************)
(* Model of afem/topology/check.py: the CheckShape coercions (to_vertex .. *)
(* to_shape), the CheckShape validator (__init__ / _invalid_subshapes) and *)
(* ClassifyPointInSolid; and of the part factories of                      *)
(* asap/structure/methods/create_parts.py.                                 *)
(*                                                                         *)
(* The specifications share the module's variables; each leaves the        *)
(* variables of the other components at their idle values:                 *)
(*   SpecCoerce    - the to_* classmethods applied to entities             *)
(*   SpecCheck     - CheckShape(shape) on a sub-shape graph                *)
(*   SpecClassify  - ClassifyPointInSolid construction, perform, queries   *)
(*   SpecConstruct - either constructor on a shape, a null shape or None   *)
(*   SpecFactory   - one call of a create_* part factory                   *)
(***************************************************************************)
EXTENDS Integers, Sequences, FiniteSets, TLC

VARIABLES
    arg,        \* coercion: the entity passed to the last to_* call
    op,         \* coercion: name of the last to_* call ("none" before any)
    res,        \* coercion: outcome of the last to_* call
    nextId,     \* coercion: identity the kernel gives the next shape it builds
    nbuilt,     \* coercion: number of shapes the last to_* call built
    children,   \* validator: TopoDS_Iterator order of each node's sub-shapes
    status,     \* validator: analyzer Result(node).Status() of each node
    anaValid,   \* validator: BRepCheck_Analyzer.IsValid() of the whole shape
    built,      \* validator: TRUE once CheckShape.__init__ has run
    invalid,    \* validator: self._invalid, with the walk's path of each entry
    tool,       \* classifier: self._tool (kernel classifier results), or NoTool
    last,       \* classifier: arguments of the last classification run
    calls,      \* classifier: number of perform calls made
    asked,      \* classifier: the last state query and its answer
    shapeArg,   \* construction: the shape handed to CheckShape(shape)
    solidArg,   \* construction: the solid handed to ClassifyPointInSolid(solid)
    ctor,       \* construction: outcome of the constructor call
    fcall,      \* part factories: the last factory call and its arguments
    fres        \* part factories: outcome of the last factory call

vars == <<arg, op, res, nextId, nbuilt, children, status, anaValid, built, invalid,
          tool, last, calls, asked, shapeArg, solidArg, ctor, fcall, fres>>

coerceVars   == <<arg, op, res, nextId, nbuilt>>
checkVars    == <<children, status, anaValid, built, invalid>>
classifyVars == <<tool, last, calls, asked>>
ctorVars     == <<shapeArg, solidArg, ctor>>
factoryVars  == <<fcall, fres>>

-----------------------------------------------------------------------------
(* Bounds of the model                                                      *)

\* distinct given (caller-owned) shapes per class / shape type
NumShapes == 2
\* distinct given geometry values (points, curves, surfaces) per kind
NumGeom == 1
\* shapes the kernel may build during one behaviour
MaxBuilt == 3
\* nodes of the sub-shape graph handed to CheckShape (node 1 is the shape)
NumNodes == 3
\* direct sub-shapes a node may have
MaxKids == 2
\* points lie on a line at coordinates 0..MaxCoord; the solid occupies
\* SolidLo..SolidHi of it, bounded by one face at each end
MaxCoord == 4
SolidLo == 1
SolidHi == 3
\* tolerances 0..MaxTol in grid units
MaxTol == 1
\* perform calls in one behaviour
MaxCalls == 3

-----------------------------------------------------------------------------
(* Shape kinds: TopAbs_ShapeEnum and the TopoDS classes (check.py 22-29)    *)

ShapeKinds == {"VERTEX", "EDGE", "WIRE", "FACE", "SHELL", "SOLID",
               "COMPSOLID", "COMPOUND"}

\* TopAbs_ShapeEnum has a ninth value, TopAbs_SHAPE, that none of the
\* TopAbs_* constants the module imports equals.
ShapeEnum == ShapeKinds \cup {"SHAPE"}

\* The TopoDS class of each shape type
ClassOf(t) ==
    CASE t = "VERTEX"    -> "TopoDS_Vertex"
      [] t = "EDGE"      -> "TopoDS_Edge"
      [] t = "WIRE"      -> "TopoDS_Wire"
      [] t = "FACE"      -> "TopoDS_Face"
      [] t = "SHELL"     -> "TopoDS_Shell"
      [] t = "SOLID"     -> "TopoDS_Solid"
      [] t = "COMPSOLID" -> "TopoDS_CompSolid"
      [] t = "COMPOUND"  -> "TopoDS_Compound"
      [] OTHER           -> "TopoDS_Shape"

\* An entity is a record with a kind:
\*   "None"                      Python's None
\*   "shape"                     a TopoDS_Shape instance: cls its Python class,
\*                               null its IsNull(), stype its ShapeType(),
\*                               id the identity of the underlying TShape
\*                               (0 for a null shape), members the ids it was
\*                               built to contain, geom the geometry it was
\*                               built over (0 if none)
\*   "gp_Pnt", "point_like", "curve", "surface"   geometry values, g their identity
\*   "other"                     anything else (a string, a number, ...)
NoneEntity == [kind |-> "None"]

Shape(c, t, i, m, g) ==
    [kind |-> "shape", cls |-> c, null |-> FALSE, stype |-> t, id |-> i,
     members |-> m, geom |-> g]

NullShape(c) ==
    [kind |-> "shape", cls |-> c, null |-> TRUE, stype |-> "NULL", id |-> 0,
     members |-> <<>>, geom |-> 0]

TopoDSClasses == {ClassOf(t) : t \in ShapeEnum}

\* Given shapes: an instance of a specific class has that class's shape type;
\* an instance of the base class TopoDS_Shape may have any shape type.
GivenShapes ==
    {Shape(ClassOf(t), t, i, <<>>, 0) : t \in ShapeKinds, i \in 1..NumShapes}
    \cup {Shape("TopoDS_Shape", t, i, <<>>, 0) : t \in ShapeEnum, i \in 1..NumShapes}
    \cup {NullShape(c) : c \in TopoDSClasses}

GeomKinds == {"gp_Pnt", "point_like", "curve", "surface"}

GivenGeom == {[kind |-> k, g |-> j] : k \in GeomKinds, j \in 1..NumGeom}

Inputs == GivenShapes \cup GivenGeom \cup {NoneEntity, [kind |-> "other"]}


-----------------------------------------------------------------------------
(* Type tests used by the coercions                                         *)

\* CheckShape.is_shape: isinstance(shape, TopoDS_Shape)
is_shape(e) == e.kind = "shape"

\* isinstance(entity, TopoDS_<X>) for a specific class
isinstance(e, c) == e.kind = "shape" /\ e.cls = c

\* CheckGeom.is_point_like: a kernel point or a 3-component point value
is_point_like(e) == e.kind \in {"gp_Pnt", "point_like"}

\* CheckGeom.is_curve / CheckGeom.is_surface
is_curve(e) == e.kind = "curve"

is_surface(e) == e.kind = "surface"

-----------------------------------------------------------------------------
(* Outcomes of a call.  next is the identity counter after the call.        *)

Return(v, n) == [tag |-> "return", val |-> v, next |-> n]

Raise(x, m, n) == [tag |-> "raise", exc |-> x, msg |-> m, next |-> n]

\* entity.ShapeType() on a null TopoDS_Shape dereferences a null handle in the
\* kernel: depending on the build this surfaces as a kernel exception or ends
\* the process.  Resolve gives the outcomes a call can have.
NullDeref(n) == [tag |-> "null_deref", next |-> n]

Resolve(o) ==
    IF o.tag = "null_deref"
    THEN {[tag |-> "raise", exc |-> "Standard_NullObject",
           msg |-> "null shape", next |-> o.next],
          [tag |-> "abort", next |-> o.next]}
    ELSE {o}

\* `cls.is_shape(entity) and entity.ShapeType() == ...` reaches ShapeType()
\* only for a TopoDS_Shape instance; on a null one it does not return.
derefs_null(e) == is_shape(e) /\ e.null

\* TopoDS.Vertex_(entity) .. TopoDS.Compound_(entity): the same underlying
\* shape seen through the specific class
Downcast(e, c) == [e EXCEPT !.cls = c]

-----------------------------------------------------------------------------
(* Kernel builders: each builds one new shape with identity n               *)

\* BRepBuilderAPI_MakeVertex(p).Vertex()
MakeVertex(e, n) == Shape("TopoDS_Vertex", "VERTEX", n, <<>>, e.g)

\* BRepBuilderAPI_MakeEdge(entity.object).Edge()
MakeEdge(e, n) == Shape("TopoDS_Edge", "EDGE", n, <<>>, e.g)

\* BRepBuilderAPI_MakeWire(edge).Wire()
MakeWire(edge, n) == Shape("TopoDS_Wire", "WIRE", n, <<edge.id>>, 0)

\* BRepBuilderAPI_MakeFace(entity.object, 0.).Face()
MakeFace(e, n) == Shape("TopoDS_Face", "FACE", n, <<>>, e.g)

\* TopoDS_Shell(); builder.MakeShell(shell); builder.Add(shell, face)
MakeShell(face, n) == Shape("TopoDS_Shell", "SHELL", n, <<face.id>>, 0)

\* The binding of BRep_Builder.MakeCompound takes a TopoDS_Compound instance;
\* any other argument (such as a class object) is rejected with TypeError.
BindingMsg == "MakeCompound(): incompatible function arguments."

MakeCompound_accepts(c) == c.kind = "shape" /\ c.cls = "TopoDS_Compound"

-----------------------------------------------------------------------------
(* The coercions.  e is the entity, n the identity counter before the call. *)

to_vertex(e, n) ==
    IF isinstance(e, "TopoDS_Vertex") THEN Return(e, n)
    ELSE IF e.kind = "gp_Pnt" THEN Return(MakeVertex(e, n), n + 1)
    ELSE IF is_point_like(e) THEN Return(MakeVertex(e, n), n + 1)
    ELSE IF derefs_null(e) THEN NullDeref(n)
    ELSE IF is_shape(e) /\ e.stype = "VERTEX"
         THEN Return(Downcast(e, "TopoDS_Vertex"), n)
    ELSE Raise("TypeError", "Failed to convert entity to a vertex.", n)

to_edge(e, n) ==
    IF isinstance(e, "TopoDS_Edge") THEN Return(e, n)
    ELSE IF is_curve(e) THEN Return(MakeEdge(e, n), n + 1)
    ELSE IF derefs_null(e) THEN NullDeref(n)
    ELSE IF is_shape(e) /\ e.stype = "EDGE"
         THEN Return(Downcast(e, "TopoDS_Edge"), n)
    ELSE Raise("TypeError", "Failed to convert entity to an edge.", n)

\* a to_wire that rebuilds a wire it is given instead of returning it
to_wire_rebuilding(e, n) ==
    IF isinstance(e, "TopoDS_Wire") THEN Return(MakeWire(e, n), n + 1)
    ELSE IF is_curve(e) THEN Return(MakeWire(MakeEdge(e, n), n + 1), n + 2)
    ELSE IF derefs_null(e) THEN NullDeref(n)
    ELSE IF is_shape(e) /\ e.stype = "EDGE" THEN Return(MakeWire(e, n), n + 1)
    ELSE IF is_shape(e) /\ e.stype = "WIRE" THEN Return(Downcast(e, "TopoDS_Wire"), n)
    ELSE Raise("TypeError", "Failed to convert entity to a wire.", n)

to_wire(e, n) ==
    IF isinstance(e, "TopoDS_Wire") THEN Return(e, n)
    ELSE IF is_curve(e)
         THEN Return(MakeWire(MakeEdge(e, n), n + 1), n + 2)
    ELSE IF derefs_null(e) THEN NullDeref(n)
    ELSE IF is_shape(e) /\ e.stype = "EDGE" THEN Return(MakeWire(e, n), n + 1)
    ELSE IF is_shape(e) /\ e.stype = "WIRE"
         THEN Return(Downcast(e, "TopoDS_Wire"), n)
    ELSE Raise("TypeError", "Failed to convert entity to a wire.", n)

to_face(e, n) ==
    IF isinstance(e, "TopoDS_Face") THEN Return(e, n)
    ELSE IF is_surface(e) THEN Return(MakeFace(e, n), n + 1)
    ELSE IF derefs_null(e) THEN NullDeref(n)
    ELSE IF is_shape(e) /\ e.stype = "FACE"
         THEN Return(Downcast(e, "TopoDS_Face"), n)
    ELSE Raise("TypeError", "Failed to convert entity to a face.", n)

\* a to_shell that makes the shell but never adds the face to it
to_shell_unfilled(e, n) ==
    IF isinstance(e, "TopoDS_Shell") THEN Return(e, n)
    ELSE IF derefs_null(e) THEN NullDeref(n)
    ELSE IF is_shape(e) /\ e.stype = "SHELL" THEN Return(Downcast(e, "TopoDS_Shell"), n)
    ELSE IF is_shape(e) /\ e.stype = "FACE"
         THEN Return(Shape("TopoDS_Shell", "SHELL", n, <<>>, 0), n + 1)
    ELSE IF is_surface(e) THEN Return(MakeShell(MakeFace(e, n), n + 1), n + 2)
    ELSE Raise("TypeError", "Failed to convert entity to a shell.", n)

to_shell(e, n) ==
    IF isinstance(e, "TopoDS_Shell") THEN Return(e, n)
    ELSE IF derefs_null(e) THEN NullDeref(n)
    ELSE IF is_shape(e) /\ e.stype = "SHELL"
         THEN Return(Downcast(e, "TopoDS_Shell"), n)
    ELSE IF is_shape(e) /\ e.stype = "FACE" THEN Return(MakeShell(e, n), n + 1)
    ELSE IF is_surface(e)
         THEN Return(MakeShell(MakeFace(e, n), n + 1), n + 2)
    ELSE Raise("TypeError", "Failed to convert entity to a shell.", n)

\* a to_solid that wraps a shell into a new solid
to_solid_wrapping(e, n) ==
    IF isinstance(e, "TopoDS_Solid") THEN Return(e, n)
    ELSE IF derefs_null(e) THEN NullDeref(n)
    ELSE IF is_shape(e) /\ e.stype = "SOLID"
         THEN Return(Downcast(e, "TopoDS_Solid"), n)
    ELSE IF is_shape(e) /\ e.stype = "SHELL"
         THEN Return(Shape("TopoDS_Solid", "SOLID", n, <<e.id>>, 0), n + 1)
    ELSE Raise("TypeError", "Failed to convert entity to a solid.", n)

to_solid(e, n) ==
    IF isinstance(e, "TopoDS_Solid") THEN Return(e, n)
    ELSE IF derefs_null(e) THEN NullDeref(n)
    ELSE IF is_shape(e) /\ e.stype = "SOLID"
         THEN Return(Downcast(e, "TopoDS_Solid"), n)
    ELSE Raise("TypeError", "Failed to convert entity to a solid.", n)

\* a to_compsolid whose message was copied from to_solid
to_compsolid_copied(e, n) ==
    IF isinstance(e, "TopoDS_CompSolid") THEN Return(e, n)
    ELSE IF derefs_null(e) THEN NullDeref(n)
    ELSE IF is_shape(e) /\ e.stype = "COMPSOLID"
         THEN Return(Downcast(e, "TopoDS_CompSolid"), n)
    ELSE Raise("TypeError", "Failed to convert entity to a solid.", n)

to_compsolid(e, n) ==
    IF isinstance(e, "TopoDS_CompSolid") THEN Return(e, n)
    ELSE IF derefs_null(e) THEN NullDeref(n)
    ELSE IF is_shape(e) /\ e.stype = "COMPSOLID"
         THEN Return(Downcast(e, "TopoDS_CompSolid"), n)
    ELSE Raise("TypeError", "Failed to convert entity to a compsolid.", n)

\* `cp = TopoDS_Compound` binds the class itself, not an instance, and that is
\* what builder.MakeCompound(cp) receives.
to_compound(e, n) ==
    IF isinstance(e, "TopoDS_Compound") THEN Return(e, n)
    ELSE IF derefs_null(e) THEN NullDeref(n)
    ELSE IF is_shape(e) /\ e.stype = "COMPOUND"
         THEN Return(Downcast(e, "TopoDS_Compound"), n)
    ELSE IF is_shape(e)
         THEN LET cp == [kind |-> "class", name |-> "TopoDS_Compound"]
              IN  IF MakeCompound_accepts(cp)
                  THEN Return(Shape("TopoDS_Compound", "COMPOUND", n,
                                    <<e.id>>, 0), n + 1)
                  ELSE Raise("TypeError", BindingMsg, n)
    ELSE Raise("TypeError", "Failed to convert entity to a compound.", n)

\* the `# Shapes` branch of to_shape: the switch over ShapeType()
shape_switch(e, n) ==
    IF e.null THEN Raise("TypeError", "Cannot convert null shape.", n)
    ELSE IF e.stype \in ShapeKinds THEN Return(Downcast(e, ClassOf(e.stype)), n)
    ELSE Raise("TypeError", "Failed to convert entity to a shape.", n)

\* a to_shape that treats a null shape like None
to_shape_null_as_none(e, n) ==
    IF e.kind = "None" THEN Return(NoneEntity, n)
    ELSE IF is_shape(e) /\ e.null THEN Return(NoneEntity, n)
    ELSE IF is_shape(e) THEN shape_switch(e, n)
    ELSE IF is_point_like(e) THEN to_vertex(e, n)
    ELSE IF is_curve(e) THEN to_edge(e, n)
    ELSE IF is_surface(e) THEN to_face(e, n)
    ELSE Raise("TypeError", "Failed to convert entity to a shape.", n)

\* a to_shape whose switch sends a shell to the solid downcast, which the
\* kernel refuses
to_shape_shell_slip(e, n) ==
    IF e.kind = "None" THEN Return(NoneEntity, n)
    ELSE IF is_shape(e) /\ ~e.null /\ e.stype = "SHELL"
         THEN Raise("Standard_TypeMismatch", "TopoDS::Solid", n)
    ELSE IF is_shape(e) THEN shape_switch(e, n)
    ELSE IF is_point_like(e) THEN to_vertex(e, n)
    ELSE IF is_curve(e) THEN to_edge(e, n)
    ELSE IF is_surface(e) THEN to_face(e, n)
    ELSE Raise("TypeError", "Failed to convert entity to a shape.", n)

to_shape(e, n) ==
    IF e.kind = "None" THEN Return(NoneEntity, n)
    ELSE IF is_shape(e) THEN shape_switch(e, n)
    ELSE IF is_point_like(e) THEN to_vertex(e, n)
    ELSE IF is_curve(e) THEN to_edge(e, n)
    ELSE IF is_surface(e) THEN to_face(e, n)
    ELSE Raise("TypeError", "Failed to convert entity to a shape.", n)

-----------------------------------------------------------------------------
(* Idle values of each component's variables                                *)

NoCall == [tag |-> "none"]

NoTool == [made |-> FALSE]

NoPoint == [given |-> FALSE]

NoQuery == [query |-> "none"]

NoFactory == [name |-> "none"]

-----------------------------------------------------------------------------
(* SpecCoerce: a client calling the to_* classmethods                       *)

InitCoerce ==
    /\ arg = NoneEntity
    /\ op = "none"
    /\ res = NoCall
    /\ nextId = NumShapes + 1
    /\ nbuilt = 0
    /\ children = <<>>
    /\ status = <<>>
    /\ anaValid = TRUE
    /\ built = FALSE
    /\ invalid = <<>>
    /\ tool = NoTool
    /\ last = NoPoint
    /\ calls = 0
    /\ asked = NoQuery
    /\ shapeArg = "unused"
    /\ solidArg = "unused"
    /\ ctor = NoCall
    /\ fcall = NoFactory
    /\ fres = NoCall

\* What a client can pass: a given entity, or the shape the last call returned
Passable ==
    Inputs \cup (IF res.tag = "return" THEN {res.val} ELSE {})

\* One call: name is the classmethod, out its outcome on e
Call(name, e, out) ==
    /\ out.next <= NumShapes + MaxBuilt + 1
    /\ arg' = e
    /\ op' = name
    /\ res' \in Resolve(out)
    /\ nextId' = out.next
    /\ nbuilt' = out.next - nextId
    /\ UNCHANGED <<checkVars, classifyVars, ctorVars, factoryVars>>

ToVertex == \E e \in Passable : Call("to_vertex", e, to_vertex(e, nextId))

ToEdge == \E e \in Passable : Call("to_edge", e, to_edge(e, nextId))

ToWire == \E e \in Passable : Call("to_wire", e, to_wire(e, nextId))

ToFace == \E e \in Passable : Call("to_face", e, to_face(e, nextId))

ToShell == \E e \in Passable : Call("to_shell", e, to_shell(e, nextId))

ToSolid == \E e \in Passable : Call("to_solid", e, to_solid(e, nextId))

ToCompSolid == \E e \in Passable : Call("to_compsolid", e, to_compsolid(e, nextId))

ToCompound == \E e \in Passable : Call("to_compound", e, to_compound(e, nextId))

ToShape == \E e \in Passable : Call("to_shape", e, to_shape(e, nextId))

NextCoerce ==
    \/ ToVertex
    \/ ToEdge
    \/ ToWire
    \/ ToFace
    \/ ToShell
    \/ ToSolid
    \/ ToCompSolid
    \/ ToCompound
    \/ ToShape

SpecCoerce == InitCoerce /\ [][NextCoerce]_vars

\* A non-null shape of one of the eight kinds
valid_shape(e) == is_shape(e) /\ ~e.null /\ e.stype \in ShapeKinds

null_shape(e) == is_shape(e) /\ e.null

called == op # "none"

-----------------------------------------------------------------------------
(* C1: to_compound(S) never fails for a valid non-null shape S: it returns   *)
(* a Compound, and when S is not already a Compound the result is a newly    *)
(* built Compound whose only member is S.                                    *)
C1_ToCompoundTotal ==
    (op = "to_compound" /\ valid_shape(arg)) =>
        /\ res.tag = "return"
        /\ res.val.cls = "TopoDS_Compound"
        /\ res.val.stype = "COMPOUND"
        /\ arg.stype # "COMPOUND" =>
              /\ nbuilt = 1
              /\ res.val.id = nextId - 1
              /\ res.val.members = <<arg.id>>

-----------------------------------------------------------------------------
(* C2 as claimed: to_shape returns an absent result, without raising, for    *)
(* None and for a null shape object alike.                                   *)
C2_NullAndNoneAbsent ==
    (op = "to_shape" /\ (arg.kind = "None" \/ null_shape(arg))) =>
        /\ res.tag = "return"
        /\ res.val = NoneEntity

(* C2 as amended: to_shape(None) returns None without raising and builds    *)
(* nothing; to_shape of a null shape object (IsNull() true) raises           *)
(* TypeError('Cannot convert null shape.').                                  *)
C2_NoneAbsentNullRaises ==
    /\ (op = "to_shape" /\ arg.kind = "None") =>
          /\ res.tag = "return"
          /\ res.val = NoneEntity
          /\ nbuilt = 0
    /\ (op = "to_shape" /\ null_shape(arg)) =>
          /\ res.tag = "raise"
          /\ res.exc = "TypeError"
          /\ res.msg = "Cannot convert null shape."

C2_Witness ==
    /\ op = "to_shape"
    /\ null_shape(arg)
    /\ arg.cls = "TopoDS_Face"
    /\ res.tag = "raise"

-----------------------------------------------------------------------------
(* C3: for a non-null shape S of ShapeType T among the eight kinds,          *)
(* to_shape(S) returns the same underlying shape (same identity, nothing     *)
(* built) as an instance of T's class with ShapeType T; a ShapeType outside  *)
(* the eight kinds makes to_shape raise.                                     *)
C3_ToShapeRoundTrip ==
    (op = "to_shape" /\ is_shape(arg) /\ ~arg.null) =>
        IF arg.stype \in ShapeKinds
        THEN /\ res.tag = "return"
             /\ res.val.stype = arg.stype
             /\ res.val.cls = ClassOf(arg.stype)
             /\ res.val.id = arg.id
             /\ res.val.members = arg.members
             /\ nbuilt = 0
        ELSE res.tag = "raise"

C3_Witness ==
    /\ op = "to_shape"
    /\ is_shape(arg)
    /\ arg.cls = "TopoDS_Shape"
    /\ arg.stype = "SHELL"
    /\ res.tag = "return"
    /\ res.val.cls = "TopoDS_Shell"

-----------------------------------------------------------------------------
(* C4: to_solid fails for every input that is not already a Solid and        *)
(* to_compsolid for every input that is not already a CompSolid; when they   *)
(* succeed the result is the input's own shape and nothing is built.         *)
already_a(e, t) ==
    is_shape(e) /\ (e.cls = ClassOf(t) \/ (~e.null /\ e.stype = t))

C4_NoSyntheticSolid ==
    /\ (op = "to_solid" /\ ~already_a(arg, "SOLID")) => res.tag # "return"
    /\ (op = "to_compsolid" /\ ~already_a(arg, "COMPSOLID")) => res.tag # "return"
    /\ (op \in {"to_solid", "to_compsolid"} /\ res.tag = "return") =>
          /\ res.val.id = arg.id
          /\ nbuilt = 0

C4_Witness ==
    /\ op = "to_solid"
    /\ valid_shape(arg)
    /\ arg.stype = "SHELL"
    /\ res.tag = "raise"

-----------------------------------------------------------------------------
(* C5 as claimed: every failing to_* coercion signals ConversionError        *)
(* carrying the requested target kind and the observed kind of the input.    *)
C5_ConversionError ==
    (called /\ res.tag = "raise") =>
        /\ res.exc = "ConversionError"
        /\ {"requested_kind", "observed_kind"} \subseteq DOMAIN res

\* The message each coercion is expected to fail with: it names the target
FailMsg(name) ==
    CASE name = "to_vertex"    -> "Failed to convert entity to a vertex."
      [] name = "to_edge"      -> "Failed to convert entity to an edge."
      [] name = "to_wire"      -> "Failed to convert entity to a wire."
      [] name = "to_face"      -> "Failed to convert entity to a face."
      [] name = "to_shell"     -> "Failed to convert entity to a shell."
      [] name = "to_solid"     -> "Failed to convert entity to a solid."
      [] name = "to_compsolid" -> "Failed to convert entity to a compsolid."
      [] name = "to_compound"  -> "Failed to convert entity to a compound."
      [] name = "to_shape"     -> "Failed to convert entity to a shape."

(* C5 as amended: a to_* coercion of anything but a null shape either        *)
(* returns or raises TypeError, building nothing when it raises; the error   *)
(* carries a message only, which names the requested target kind (or is the  *)
(* kernel binding's message on to_compound's wrapping path) and never the    *)
(* observed kind of the input.                                               *)
C5_TypeErrorWithTarget ==
    (called /\ ~null_shape(arg)) =>
        /\ res.tag \in {"return", "raise"}
        /\ res.tag = "raise" =>
              /\ res.exc = "TypeError"
              /\ DOMAIN res = {"tag", "exc", "msg", "next"}
              /\ nbuilt = 0
              /\ \/ res.msg = FailMsg(op)
                 \/ op = "to_compound" /\ is_shape(arg) /\ res.msg = BindingMsg

C5_Witness ==
    /\ op = "to_solid"
    /\ valid_shape(arg)
    /\ arg.stype = "FACE"
    /\ res.tag = "raise"
    /\ res.exc = "TypeError"
    /\ res.msg = "Failed to convert entity to a solid."

-----------------------------------------------------------------------------
(* The validator: CheckShape.__init__ and _invalid_subshapes                *)

Nodes == 1..NumNodes

\* The status lists the analyzer keeps for a sub-shape: the single entry
\* BRepCheck_NoError, or one or more distinct error statuses.
StatusLists ==
    {<<"BRepCheck_NoError">>,
     <<"BRepCheck_InvalidRange">>,
     <<"BRepCheck_InvalidRange", "BRepCheck_SelfIntersectingWire">>}

\* Sub-shape graphs: each node lists its direct sub-shapes in TopoDS_Iterator
\* order.  Sub-shapes have a larger number than their parent (no cycles); a
\* sub-shape may be shared by several parents and may occur twice in one.
KidSeqs(n) ==
    UNION {[1..k -> {m \in Nodes : m > n}] : k \in 0..MaxKids}

RECURSIVE GraphsFrom(_)
GraphsFrom(n) ==
    IF n > NumNodes THEN {<<>>}
    ELSE {<<kids>> \o g : kids \in KidSeqs(n), g \in GraphsFrom(n + 1)}

Graphs == GraphsFrom(1)

\* for status in list_of_status: if status != BRepCheck_NoError
bad_statuses(n) == SelectSeq(status[n], LAMBDA st : st # "BRepCheck_NoError")

flagged(n) == Len(bad_statuses(n)) > 0

\* The shape and everything under it
RECURSIVE Under(_)
Under(n) == {n} \cup UNION {Under(children[n][k]) : k \in 1..Len(children[n])}

\* BRepCheck_Analyzer.IsValid(): the shape is valid iff the analyzer found no
\* defect on the shape or on anything under it.
analyzer_is_valid == \A n \in Under(1) : ~flagged(n)

RECURSIVE invalid_subshapes(_, _)
RECURSIVE walk(_, _, _)
RECURSIVE walk_recursing_first(_, _, _)
RECURSIVE walk_flagged_only(_, _, _)
RECURSIVE walk_listing_once(_, _, _)

\* a walk that looks under a sub-shape only when the sub-shape has an error
walk_flagged_only(shape, path, i) ==
    IF i > Len(children[shape]) THEN <<>>
    ELSE LET sub_shape == children[shape][i]
             here == Append(path, i)
             own == [k \in 1..Len(bad_statuses(sub_shape)) |->
                        [shape |-> sub_shape, path |-> here]]
         IN  own \o (IF flagged(sub_shape)
                     THEN invalid_subshapes(sub_shape, here)
                     ELSE <<>>)
                 \o walk_flagged_only(shape, path, i + 1)

\* a walk that lists a sub-shape once however many errors it has
walk_listing_once(shape, path, i) ==
    IF i > Len(children[shape]) THEN <<>>
    ELSE LET sub_shape == children[shape][i]
             here == Append(path, i)
             own == IF flagged(sub_shape)
                    THEN <<[shape |-> sub_shape, path |-> here]>>
                    ELSE <<>>
         IN  own \o invalid_subshapes(sub_shape, here)
                 \o walk_listing_once(shape, path, i + 1)

\* a walk that recurses into the sub-shape before appending it
walk_recursing_first(shape, path, i) ==
    IF i > Len(children[shape]) THEN <<>>
    ELSE LET sub_shape == children[shape][i]
             here == Append(path, i)
             own == [k \in 1..Len(bad_statuses(sub_shape)) |->
                        [shape |-> sub_shape, path |-> here]]
         IN  invalid_subshapes(sub_shape, here) \o own
                \o walk_recursing_first(shape, path, i + 1)

\* The `while it.More()` loop from the i-th sub-shape of shape on: the
\* sub-shape once per error status, then what the recursion into it finds,
\* then the rest of the loop.  path is how the walk came to shape (the
\* positions taken in each iterator); it is kept with every entry.
walk(shape, path, i) ==
    IF i > Len(children[shape]) THEN <<>>
    ELSE LET sub_shape == children[shape][i]
             here == Append(path, i)
             own == [k \in 1..Len(bad_statuses(sub_shape)) |->
                        [shape |-> sub_shape, path |-> here]]
         IN  own \o invalid_subshapes(sub_shape, here)
                 \o walk(shape, path, i + 1)

invalid_subshapes(shape, path) == walk(shape, path, 1)

\* What a constructor can be handed as its shape: a shape of the kernel, a
\* null shape object (TopoDS_Shape() with IsNull() true), or None
ShapeArgs == {"shape", "null", "None"}

CtorMsg == "__init__(): incompatible constructor arguments."

\* an analyzer constructor that screens its argument first
analyzer_checking_null(s) ==
    IF s \in {"None", "null"}
    THEN Raise("InvalidShapeError", "null shape", nextId)
    ELSE Return(s, nextId)

\* BRepCheck_Analyzer(shape, geom) as CheckShape.__init__ calls it: None is not
\* a TopoDS_Shape, so the binding rejects the call; a null shape is
\* dereferenced when the analyzer reads its ShapeType(); any other shape is
\* analysed, whatever its defects.
BRepCheck_Analyzer(s) ==
    IF s = "None" THEN Raise("TypeError", CtorMsg, nextId)
    ELSE IF s = "null" THEN NullDeref(nextId)
    ELSE Return(s, nextId)

\* CheckShape.is_valid and CheckShape.invalid_shapes
is_valid == anaValid

invalid_shapes == [i \in 1..Len(invalid) |-> invalid[i].shape]

InitCheck ==
    /\ arg = NoneEntity
    /\ op = "none"
    /\ res = NoCall
    /\ nextId = NumShapes + 1
    /\ nbuilt = 0
    /\ children \in Graphs
    /\ status \in [Nodes -> StatusLists]
    /\ anaValid = analyzer_is_valid
    /\ built = FALSE
    /\ invalid = <<>>
    /\ tool = NoTool
    /\ last = NoPoint
    /\ calls = 0
    /\ asked = NoQuery
    /\ shapeArg = "shape"
    /\ solidArg = "unused"
    /\ ctor = NoCall
    /\ fcall = NoFactory
    /\ fres = NoCall

\* CheckShape.__init__(shape): shape is node 1 of the graph, a null shape
\* object or None.  The constructor hands it to BRepCheck_Analyzer unchecked;
\* self._invalid is filled only when the analyzer was made.
CheckShape_init ==
    /\ shapeArg \in ShapeArgs
    /\ ~built
    /\ ctor = NoCall
    /\ ctor' \in Resolve(BRepCheck_Analyzer(shapeArg))
    /\ built' = (ctor'.tag = "return")
    /\ invalid' = IF ctor'.tag = "return" /\ ~anaValid
                  THEN invalid_subshapes(1, <<>>)
                  ELSE <<>>
    /\ UNCHANGED <<children, status, anaValid, shapeArg, solidArg,
                   coerceVars, classifyVars, factoryVars>>

NextCheck == CheckShape_init

SpecCheck == InitCheck /\ [][NextCheck]_vars

-----------------------------------------------------------------------------
(* C6: invalid_shapes is empty if and only if is_valid is true; whenever the *)
(* analyzer reports the shape not valid, also when the only flagged node is  *)
(* the shape itself, invalid_shapes is non-empty.                            *)
C6_EmptyIffValid ==
    built => ((invalid_shapes = <<>>) <=> is_valid)

-----------------------------------------------------------------------------
(* C7: pre-order.  Every entry of invalid_shapes is the sub-shape its walk   *)
(* path leads to; the entries are listed in pre-order of their paths (a      *)
(* parent's path before its children's, siblings by iterator position, a     *)
(* child's whole subtree before the next sibling); and each listing of a     *)
(* flagged sub-shape P is followed by a listing of every flagged direct      *)
(* child of P.                                                               *)
RECURSIVE node_at(_, _)
node_at(n, path) ==
    IF path = <<>> THEN n ELSE node_at(children[n][Head(path)], Tail(path))

\* p comes no later than q in pre-order
pre_order(p, q) ==
    \E k \in 0..Len(p) :
        /\ k <= Len(q)
        /\ \A m \in 1..k : p[m] = q[m]
        /\ \/ k = Len(p)
           \/ k < Len(q) /\ p[k + 1] < q[k + 1]

C7_PreOrder ==
    built =>
        /\ \A i \in 1..Len(invalid) :
              node_at(1, invalid[i].path) = invalid[i].shape
        /\ \A i, j \in 1..Len(invalid) :
              i < j => pre_order(invalid[i].path, invalid[j].path)
        /\ \A i \in 1..Len(invalid) :
              \A k \in 1..Len(children[invalid[i].shape]) :
                  flagged(children[invalid[i].shape][k]) =>
                      \E j \in (i + 1)..Len(invalid) :
                          /\ invalid[j].shape = children[invalid[i].shape][k]
                          /\ invalid[j].path = Append(invalid[i].path, k)

\* a flagged sub-shape with a flagged direct child, and a flagged next sibling
C7_Witness ==
    /\ built
    /\ \E i, j, l \in 1..Len(invalid) :
          /\ i < j /\ j < l
          /\ Len(invalid[i].path) = 1
          /\ invalid[j].path = Append(invalid[i].path, 1)
          /\ Len(invalid[l].path) = 1
          /\ invalid[l].path[1] = invalid[i].path[1] + 1

-----------------------------------------------------------------------------
(* The classifier: ClassifyPointInSolid                                     *)

\* TopAbs_State (check.py 23-25)
TopAbsStates == {"IN", "OUT", "ON", "UNKNOWN"}

Coords == 0..MaxCoord

\* tol=1.0e-7, the default of __init__ and perform: smaller than the grid
\* spacing, so it acts as 0 on grid points
DefaultTol == 0

Tols == DefaultTol..MaxTol

\* What a caller passes as pnt: a point in one of the forms CheckGeom.to_point
\* accepts, or None
PointForms == {"Point", "gp_Pnt", "point_like"}

PointArgs == [given : {TRUE}, form : PointForms, x : Coords]

\* CheckGeom.to_point: the point as a Point, or None if it is not point-like
to_point(pnt) == IF pnt.given THEN [given |-> TRUE, x |-> pnt.x] ELSE NoPoint

\* CheckGeom.is_point
is_point(pnt) == pnt.given

Dist(a, b) == IF a < b THEN b - a ELSE a - b

\* The kernel's classification of the point x against the solid with
\* tolerance tol: the state, whether the point is on a face, and that face
classify(x, tol) ==
    IF Dist(x, SolidLo) <= tol
    THEN [made |-> TRUE, state |-> "ON", onAFace |-> TRUE, face |-> "face_lo"]
    ELSE IF Dist(x, SolidHi) <= tol
    THEN [made |-> TRUE, state |-> "ON", onAFace |-> TRUE, face |-> "face_hi"]
    ELSE IF SolidLo < x /\ x < SolidHi
    THEN [made |-> TRUE, state |-> "IN", onAFace |-> FALSE, face |-> "null"]
    ELSE [made |-> TRUE, state |-> "OUT", onAFace |-> FALSE, face |-> "null"]

\* BRepClass3d_SolidClassifier(solid): nothing classified yet
unclassified ==
    [made |-> TRUE, state |-> "UNKNOWN", onAFace |-> FALSE, face |-> "null"]

\* a classifier that holds on to the face it found before
perform_keeping_face(t, pnt, tol) ==
    LET new == classify(to_point(pnt).x, tol)
    IN  IF t.face # "null" /\ new.face = "null"
        THEN [new EXCEPT !.face = t.face]
        ELSE new

\* ClassifyPointInSolid.perform: the tool after self._tool.Perform(pnt, tol)
perform(t, pnt, tol) == classify(to_point(pnt).x, tol)

\* ClassifyPointInSolid.__init__: the tool it creates
new_tool(pnt, tol) ==
    IF ~is_point(to_point(pnt)) THEN unclassified
    ELSE classify(to_point(pnt).x, tol)

\* an is_on that also answers TRUE inside the solid
is_on_or_in == tool.state \in {"ON", "IN"}

\* The state queries
is_in == tool.state = "IN"

is_out == tool.state = "OUT"

is_on == tool.state = "ON"

is_unknown == tool.state = "UNKNOWN"

is_on_face == tool.onAFace

face == tool.face

InitClassify ==
    /\ arg = NoneEntity
    /\ op = "none"
    /\ res = NoCall
    /\ nextId = NumShapes + 1
    /\ nbuilt = 0
    /\ children = <<>>
    /\ status = <<>>
    /\ anaValid = TRUE
    /\ built = FALSE
    /\ invalid = <<>>
    /\ tool = NoTool
    /\ last = NoPoint
    /\ calls = 0
    /\ asked = NoQuery
    /\ shapeArg = "unused"
    /\ solidArg = "shape"
    /\ ctor = NoCall
    /\ fcall = NoFactory
    /\ fres = NoCall

\* the arguments of a classification run, and the tool it replaced
Ran(pnt, tol) ==
    [given |-> TRUE, x |-> to_point(pnt).x, tol |-> tol, before |-> tool]

\* BRepClass3d_SolidClassifier(solid[, pnt, tol]) as __init__ calls it: None
\* is rejected by the binding; what the kernel does with a null solid is the
\* kernel's affair (it may build the classifier or fail on the null handle).
BRepClass3d_SolidClassifier(s) ==
    IF s = "None" THEN {Raise("TypeError", CtorMsg, nextId)}
    ELSE IF s = "null" THEN {Return(s, nextId)} \cup Resolve(NullDeref(nextId))
    ELSE {Return(s, nextId)}

\* ClassifyPointInSolid.__init__(solid, pnt, tol): the solid goes to the kernel
\* classifier unchecked; self._tool exists only when that call returned.
ClassifyPointInSolid_init ==
    /\ solidArg \in ShapeArgs
    /\ ~tool.made
    /\ ctor = NoCall
    /\ ctor' \in BRepClass3d_SolidClassifier(solidArg)
    /\ \E pnt \in PointArgs \cup {NoPoint}, tol \in Tols :
          /\ tool' = IF ctor'.tag = "return" THEN new_tool(pnt, tol) ELSE NoTool
          /\ last' = IF ctor'.tag = "return" /\ is_point(to_point(pnt))
                     THEN Ran(pnt, tol)
                     ELSE NoPoint
    /\ UNCHANGED <<calls, asked, shapeArg, solidArg, coerceVars, checkVars,
                   factoryVars>>

Perform ==
    /\ tool.made
    /\ calls < MaxCalls
    /\ \E pnt \in PointArgs, tol \in Tols :
          /\ tool' = perform(tool, pnt, tol)
          /\ last' = Ran(pnt, tol)
    /\ calls' = calls + 1
    /\ UNCHANGED <<asked, coerceVars, checkVars, ctorVars, factoryVars>>

Query(name, answer) ==
    /\ tool.made
    /\ asked' = [query |-> name, answer |-> answer]
    /\ UNCHANGED <<tool, last, calls, coerceVars, checkVars, ctorVars, factoryVars>>

IsIn == Query("is_in", is_in)

IsOut == Query("is_out", is_out)

IsOn == Query("is_on", is_on)

IsUnknown == Query("is_unknown", is_unknown)

IsOnFace == Query("is_on_face", is_on_face)

Face == Query("face", face)

NextClassify ==
    \/ ClassifyPointInSolid_init
    \/ Perform
    \/ IsIn
    \/ IsOut
    \/ IsOn
    \/ IsUnknown
    \/ IsOnFace
    \/ Face

SpecClassify == InitClassify /\ [][NextClassify]_vars

-----------------------------------------------------------------------------
(* C8: once a classifier exists, after any number of perform calls exactly   *)
(* one of is_in, is_out, is_on, is_unknown is true, and a step that answers  *)
(* a query leaves the classifier's state as it was.                          *)
answers == <<is_in, is_out, is_on, is_unknown>>

C8_ExactlyOneState ==
    /\ [](tool.made => Cardinality({k \in 1..4 : answers[k]}) = 1)
    /\ [][asked' # asked => tool' = tool]_vars

C8_Witness ==
    /\ calls = 2
    /\ asked.query = "is_on"
    /\ asked.answer = TRUE
    /\ is_on /\ ~is_in /\ ~is_out /\ ~is_unknown

-----------------------------------------------------------------------------
-----------------------------------------------------------------------------
(* SpecConstruct: constructing a CheckShape or a ClassifyPointInSolid on a   *)
(* shape, on a null shape object or on None.  A behaviour constructs one of  *)
(* the two; the other component's argument stays "unused".                   *)

InitConstruct ==
    /\ arg = NoneEntity
    /\ op = "none"
    /\ res = NoCall
    /\ nextId = NumShapes + 1
    /\ nbuilt = 0
    /\ shapeArg \in ShapeArgs \cup {"unused"}
    /\ solidArg \in (IF shapeArg = "unused" THEN ShapeArgs ELSE {"unused"})
    /\ children \in (IF shapeArg = "shape" THEN Graphs ELSE {[n \in Nodes |-> <<>>]})
    /\ status \in (IF shapeArg = "shape"
                   THEN [Nodes -> StatusLists]
                   ELSE {[n \in Nodes |-> <<"BRepCheck_NoError">>]})
    /\ anaValid = analyzer_is_valid
    /\ built = FALSE
    /\ invalid = <<>>
    /\ tool = NoTool
    /\ last = NoPoint
    /\ calls = 0
    /\ asked = NoQuery
    /\ ctor = NoCall
    /\ fcall = NoFactory
    /\ fres = NoCall

NextConstruct ==
    \/ CheckShape_init
    \/ ClassifyPointInSolid_init

SpecConstruct == InitConstruct /\ [][NextConstruct]_vars

\* a constructor was called on an absent (None) or null shape
absent_or_null == shapeArg \in {"None", "null"} \/ solidArg \in {"None", "null"}

-----------------------------------------------------------------------------
(* C11: constructing the validator (CheckShape) or the classifier            *)
(* (ClassifyPointInSolid) with a null or absent shape signals                *)
(* InvalidShapeError, while constructing the validator on a non-null but     *)
(* geometrically invalid shape never fails and yields is_valid false.        *)
C11_InvalidShapeError ==
    /\ (ctor # NoCall /\ absent_or_null) =>
          /\ ctor.tag = "raise"
          /\ ctor.exc = "InvalidShapeError"
    /\ (ctor # NoCall /\ shapeArg = "shape" /\ ~analyzer_is_valid) =>
          /\ ctor.tag = "return"
          /\ built
          /\ ~is_valid

(* C11 as amended: neither constructor checks its shape and nothing ever     *)
(* signals InvalidShapeError.  With None the call fails with the binding's   *)
(* TypeError; a null shape object goes to the kernel unchecked, where the    *)
(* analyzer of CheckShape fails on it (kernel exception or abort).           *)
(* Constructing the validator on a non-null shape with defects never fails   *)
(* and yields is_valid false.                                                *)
C11_NoNullCheck ==
    /\ ctor.tag = "raise" => ctor.exc # "InvalidShapeError"
    /\ (ctor # NoCall /\ "None" \in {shapeArg, solidArg}) =>
          /\ ctor.tag = "raise"
          /\ ctor.exc = "TypeError"
          /\ ~built
          /\ ~tool.made
    /\ (ctor # NoCall /\ shapeArg = "null") =>
          /\ ctor.tag \in {"raise", "abort"}
          /\ ~built
    /\ (ctor # NoCall /\ shapeArg = "shape" /\ ~analyzer_is_valid) =>
          /\ ctor.tag = "return"
          /\ built
          /\ ~is_valid

C11_Witness ==
    /\ shapeArg = "None"
    /\ ctor.tag = "raise"
    /\ ctor.exc = "TypeError"
    /\ ~built

-----------------------------------------------------------------------------
(* C12: to_shell applied to a generic shape of ShapeType Face returns a new  *)
(* Shell that contains exactly one Face, and that Face is the input itself   *)
(* (same identity); applied to an existing Shell it returns that Shell       *)
(* unchanged and builds nothing.                                             *)
C12_ToShellOfFace ==
    /\ (op = "to_shell" /\ valid_shape(arg) /\ arg.stype = "FACE") =>
          /\ res.tag = "return"
          /\ res.val.cls = "TopoDS_Shell"
          /\ res.val.stype = "SHELL"
          /\ ~res.val.null
          /\ nbuilt = 1
          /\ res.val.id = nextId - 1
          /\ res.val.id # arg.id
          /\ res.val.members = <<arg.id>>
    /\ (op = "to_shell" /\ valid_shape(arg) /\ arg.stype = "SHELL") =>
          /\ res.tag = "return"
          /\ res.val.id = arg.id
          /\ res.val.members = arg.members
          /\ res.val.stype = "SHELL"
          /\ nbuilt = 0
    /\ (op = "to_shell" /\ isinstance(arg, "TopoDS_Shell")) =>
          /\ res.tag = "return"
          /\ res.val = arg
          /\ nbuilt = 0

C12_Witness ==
    /\ op = "to_shell"
    /\ arg.kind = "shape"
    /\ arg.cls = "TopoDS_Shape"
    /\ arg.stype = "FACE"
    /\ res.tag = "return"
    /\ res.val.members = <<arg.id>>
    /\ nbuilt = 1

-----------------------------------------------------------------------------
(* C13: to_wire is idempotent.  Given a Wire it returns that very Wire and   *)
(* builds nothing; and whenever a to_wire call succeeded (on an Edge, a      *)
(* curve or a Wire), calling to_wire next on its result returns that same    *)
(* result and builds nothing.                                                *)
C13_ToWireIdempotent ==
    /\ [](op = "to_wire" /\ isinstance(arg, "TopoDS_Wire") =>
            res.tag = "return" /\ res.val = arg /\ nbuilt = 0)
    /\ [][(/\ op = "to_wire"
           /\ res.tag = "return"
           /\ op' = "to_wire"
           /\ arg' = res.val)
          => (/\ res'.tag = "return"
              /\ res'.val = res.val
              /\ nbuilt' = 0
              /\ nextId' = nextId)]_vars

\* to_wire was applied to a wire that an earlier call built from an edge
C13_Witness ==
    /\ op = "to_wire"
    /\ arg.kind = "shape"
    /\ arg.cls = "TopoDS_Wire"
    /\ arg.id > NumShapes
    /\ arg.members # <<>>
    /\ res.tag = "return"
    /\ res.val = arg
    /\ nbuilt = 0

-----------------------------------------------------------------------------
(* The part factories of asap/structure/methods/create_parts.py             *)
(*                                                                          *)
(* The factories coerce their reference shape with ShapeTools.to_shape and  *)
(* ShapeTools.to_face (asap.topology).  What the wing / fuselage tests and  *)
(* the kernel steps after the coercion deliver is an input of each call:    *)
(* isw / isf is the answer of CheckOML.is_wing / is_fuselage, ok says       *)
(* whether the later steps (section, wires, intersections, offset) all      *)
(* produced something.  n is the identity counter before the call.          *)

\* items a create_*s_* loop may be handed
MaxItems == 2

\* ShapeTools.to_shape: None and null shapes give None; a shape is downcast
\* by its ShapeType; geometry is turned into a vertex, an edge or a face;
\* anything else is a conversion failure, signalled to the caller.
ShapeTools_to_shape(e, n) ==
    IF e.kind = "None" \/ (is_shape(e) /\ e.null) THEN Return(NoneEntity, n)
    ELSE IF is_shape(e)
         THEN IF e.stype \in ShapeKinds
              THEN Return(Downcast(e, ClassOf(e.stype)), n)
              ELSE Raise("ConversionError", "to_shape", n)
    ELSE IF is_point_like(e) \/ e.kind = "gp_Pnt" THEN Return(MakeVertex(e, n), n + 1)
    ELSE IF is_curve(e) THEN Return(MakeEdge(e, n), n + 1)
    ELSE IF is_surface(e) THEN Return(MakeFace(e, n), n + 1)
    ELSE Raise("ConversionError", "to_shape", n)

\* ShapeTools.to_face: a Face as is, a surface as a new Face, a shape of
\* ShapeType FACE downcast; anything else is a conversion failure.
ShapeTools_to_face(e, n) ==
    IF isinstance(e, "TopoDS_Face") THEN Return(e, n)
    ELSE IF is_surface(e) THEN Return(MakeFace(e, n), n + 1)
    ELSE IF is_shape(e) /\ ~e.null /\ e.stype = "FACE"
         THEN Return(Downcast(e, "TopoDS_Face"), n)
    ELSE Raise("ConversionError", "to_face", n)

\* Python truth of a coercion's or a factory's result: None is false, a shape
\* or a part is true
truthy(v) == v # NoneEntity

\* SurfacePart(name, rshape), Spar/Rib(name, wing, rshape), Frame, Bulkhead,
\* Floor(name, fuselage, rshape)
Part(kind, rshape) == [kind |-> "part", part |-> kind, rshape |-> rshape]

WingPart(etype, rshape) == Part(IF etype = "spar" THEN "Spar" ELSE "Rib", rshape)

create_surface_part(rshape, n) ==
    LET c == ShapeTools_to_shape(rshape, n)
    IN  IF c.tag # "return" THEN c
        ELSE IF ~truthy(c.val) THEN Return(NoneEntity, c.next)
        ELSE Return(Part("SurfacePart", c.val), c.next)

\* pln is what wing.extract_plane gives: a plane, or None
create_wing_part_by_params(etype, isw, pln, rshape, n) ==
    IF ~isw THEN Return(NoneEntity, n)
    ELSE LET c == ShapeTools_to_shape(rshape, n)
         IN  IF c.tag # "return" THEN c
             ELSE IF c.val = NoneEntity
                  THEN IF ~truthy(pln) THEN Return(NoneEntity, c.next)
                       ELSE LET f == ShapeTools_to_face(pln, c.next)
                            IN  IF f.tag # "return" THEN f
                                ELSE IF ~truthy(f.val) THEN Return(NoneEntity, f.next)
                                ELSE Return(WingPart(etype, f.val), f.next)
             ELSE Return(WingPart(etype, c.val), c.next)

\* ok: both points are points and invert onto the wing
create_wing_part_by_points(etype, isw, ok, pln, rshape, n) ==
    IF ~isw THEN Return(NoneEntity, n)
    ELSE IF ~ok THEN Return(NoneEntity, n)
    ELSE create_wing_part_by_params(etype, isw, pln, rshape, n)

create_wing_part_by_sref(etype, isw, rshape, ok, n) ==
    IF ~isw THEN Return(NoneEntity, n)
    ELSE LET c == ShapeTools_to_shape(rshape, n)
         IN  IF c.tag # "return" THEN c
             ELSE IF ~truthy(c.val) THEN Return(NoneEntity, c.next)
             ELSE IF ~ok THEN Return(NoneEntity, c.next)
             ELSE Return(WingPart(etype, c.val), c.next)

create_wing_part_between_geom(etype, isw, pln, rshape, ok, n) ==
    IF ~isw THEN Return(NoneEntity, n)
    ELSE LET c == ShapeTools_to_shape(rshape, n)
         IN  IF c.tag # "return" THEN c
             ELSE IF ~truthy(c.val) THEN Return(NoneEntity, c.next)
             ELSE IF ~ok THEN Return(NoneEntity, c.next)
             ELSE create_wing_part_by_points(etype, isw, ok, pln, c.val, c.next)

create_frame_by_sref(isf, rshape, ok, n) ==
    LET f == ShapeTools_to_face(rshape, n)
    IN  IF f.tag # "return" THEN f
        ELSE IF ~truthy(f.val) THEN Return(NoneEntity, f.next)
        ELSE IF ~isf THEN Return(NoneEntity, f.next)
        ELSE IF ~ok THEN Return(NoneEntity, f.next)
        ELSE Return(Part("Frame", f.val), f.next)

fuselage_part(kind, isf, rshape, n) ==
    IF ~isf THEN Return(NoneEntity, n)
    ELSE LET f == ShapeTools_to_face(rshape, n)
         IN  IF f.tag # "return" THEN f
             ELSE IF ~truthy(f.val) THEN Return(NoneEntity, f.next)
             ELSE Return(Part(kind, f.val), f.next)

create_bulkhead_by_sref(isf, rshape, n) == fuselage_part("Bulkhead", isf, rshape, n)

create_floor_by_sref(isf, rshape, n) == fuselage_part("Floor", isf, rshape, n)

\* `for pln in plns: frame = create_frame_by_sref(...)`, from item i on
RECURSIVE frames_from(_, _, _, _, _)
frames_from(plns, oks, i, frames, n) ==
    IF i > Len(plns) THEN Return(frames, n)
    ELSE LET frame == create_frame_by_sref(TRUE, plns[i], oks[i], n)
         IN  IF frame.tag # "return" THEN frame
             ELSE IF ~truthy(frame.val) THEN frames_from(plns, oks, i + 1, frames, frame.next)
             ELSE frames_from(plns, oks, i + 1, Append(frames, frame.val), frame.next)

create_frames_between_planes(isf, plns, oks, n) ==
    IF ~isf THEN Return(<<>>, n)
    ELSE IF plns = <<>> THEN Return(<<>>, n)
    ELSE frames_from(plns, oks, 1, <<>>, n)

\* `for shape in shapes: shape = ShapeTools.to_shape(shape); frame = ...`
RECURSIVE frames_at(_, _, _, _, _)
frames_at(shapes, oks, i, frames, n) ==
    IF i > Len(shapes) THEN Return(frames, n)
    ELSE LET c == ShapeTools_to_shape(shapes[i], n)
         IN  IF c.tag # "return" THEN c
             ELSE LET frame == create_frame_by_sref(TRUE, c.val, oks[i], c.next)
                  IN  IF frame.tag # "return" THEN frame
                      ELSE IF ~truthy(frame.val)
                           THEN frames_at(shapes, oks, i + 1, frames, frame.next)
                      ELSE frames_at(shapes, oks, i + 1, Append(frames, frame.val),
                                     frame.next)

create_frames_at_shapes(isf, shapes, oks, n) ==
    IF ~isf THEN Return(<<>>, n)
    ELSE frames_at(shapes, oks, 1, <<>>, n)

\* `for pln in plns: part = create_wing_part_between_geom(...)`
RECURSIVE parts_from(_, _, _, _, _, _)
parts_from(etype, plns, oks, i, parts, n) ==
    IF i > Len(plns) THEN Return(parts, n)
    ELSE LET part == create_wing_part_between_geom(etype, TRUE, NoneEntity, plns[i],
                                                   oks[i], n)
         IN  IF part.tag # "return" THEN part
             ELSE IF ~truthy(part.val)
                  THEN parts_from(etype, plns, oks, i + 1, parts, part.next)
             ELSE parts_from(etype, plns, oks, i + 1, Append(parts, part.val), part.next)

create_wing_parts_between_planes(etype, isw, plns, oks, n) ==
    IF ~isw THEN Return(<<>>, n)
    ELSE IF plns = <<>> THEN Return(<<>>, n)
    ELSE parts_from(etype, plns, oks, 1, <<>>, n)

\* isc: CheckGeom.is_curve_like(curve)
create_wing_parts_along_curve(etype, isw, isc, plns, oks, n) ==
    IF ~isw \/ ~isc THEN Return(<<>>, n)
    ELSE parts_from(etype, plns, oks, 1, <<>>, n)

-----------------------------------------------------------------------------
(* SpecFactory: a client making one call of a part factory                  *)

ETypes == {"spar", "rib"}

\* what wing.extract_plane may give
ExtractedPlanes == {NoneEntity, [kind |-> "surface", g |-> 1]}

\* the planes CreateGeom.planes_between_planes / planes_along_curve produce
PlaneLists == UNION {[1..k -> {e \in GivenGeom : e.kind = "surface"}] : k \in 0..MaxItems}

\* shapes a client may list for create_frames_at_shapes
ListedShapes ==
    {Shape("TopoDS_Face", "FACE", 1, <<>>, 0), Shape("TopoDS_Shape", "FACE", 1, <<>>, 0),
     Shape("TopoDS_Vertex", "VERTEX", 1, <<>>, 0), [kind |-> "surface", g |-> 1],
     NoneEntity, [kind |-> "other"]}

ShapeLists == UNION {[1..k -> ListedShapes] : k \in 0..MaxItems}

OkLists == [1..MaxItems -> BOOLEAN]

InitFactory ==
    /\ arg = NoneEntity
    /\ op = "none"
    /\ res = NoCall
    /\ nextId = NumShapes + 1
    /\ nbuilt = 0
    /\ children = <<>>
    /\ status = <<>>
    /\ anaValid = TRUE
    /\ built = FALSE
    /\ invalid = <<>>
    /\ tool = NoTool
    /\ last = NoPoint
    /\ calls = 0
    /\ asked = NoQuery
    /\ shapeArg = "unused"
    /\ solidArg = "unused"
    /\ ctor = NoCall
    /\ fcall = NoFactory
    /\ fres = NoCall

\* One factory call: coerces names the coercion applied to rshape first
FactoryCall(name, coerces, rshape, reached, out) ==
    /\ fcall = NoFactory
    /\ out.next <= NumShapes + MaxBuilt + 1
    /\ fcall' = [name |-> name, coerces |-> coerces, rshape |-> rshape,
                 reached |-> reached]
    /\ fres' = out
    /\ nextId' = out.next
    /\ UNCHANGED <<arg, op, res, nbuilt, checkVars, classifyVars, ctorVars>>

CreateSurfacePart ==
    \E r \in Inputs :
        FactoryCall("create_surface_part", "to_shape", r, TRUE,
                    create_surface_part(r, nextId))

CreateWingPartByParams ==
    \E t \in ETypes, isw \in BOOLEAN, pln \in ExtractedPlanes, r \in Inputs :
        FactoryCall("create_wing_part_by_params", "to_shape", r, isw,
                    create_wing_part_by_params(t, isw, pln, r, nextId))

CreateWingPartBySref ==
    \E t \in ETypes, isw \in BOOLEAN, ok \in BOOLEAN, r \in Inputs :
        FactoryCall("create_wing_part_by_sref", "to_shape", r, isw,
                    create_wing_part_by_sref(t, isw, r, ok, nextId))

CreateWingPartBetweenGeom ==
    \E t \in ETypes, isw \in BOOLEAN, ok \in BOOLEAN, r \in Inputs :
        FactoryCall("create_wing_part_between_geom", "to_shape", r, isw,
                    create_wing_part_between_geom(t, isw, NoneEntity, r, ok, nextId))

CreateFrameBySref ==
    \E isf \in BOOLEAN, ok \in BOOLEAN, r \in Inputs :
        FactoryCall("create_frame_by_sref", "to_face", r, TRUE,
                    create_frame_by_sref(isf, r, ok, nextId))

CreateBulkheadBySref ==
    \E isf \in BOOLEAN, r \in Inputs :
        FactoryCall("create_bulkhead_by_sref", "to_face", r, isf,
                    create_bulkhead_by_sref(isf, r, nextId))

CreateFloorBySref ==
    \E isf \in BOOLEAN, r \in Inputs :
        FactoryCall("create_floor_by_sref", "to_face", r, isf,
                    create_floor_by_sref(isf, r, nextId))

CreateFramesBetweenPlanes ==
    \E isf \in BOOLEAN, plns \in PlaneLists, oks \in OkLists :
        FactoryCall("create_frames_between_planes", "to_face", plns, isf,
                    create_frames_between_planes(isf, plns, oks, nextId))

CreateFramesAtShapes ==
    \E isf \in BOOLEAN, shapes \in ShapeLists, oks \in OkLists :
        FactoryCall("create_frames_at_shapes", "to_shape", shapes, isf,
                    create_frames_at_shapes(isf, shapes, oks, nextId))

CreateWingPartsBetweenPlanes ==
    \E t \in ETypes, isw \in BOOLEAN, plns \in PlaneLists, oks \in OkLists :
        FactoryCall("create_wing_parts_between_planes", "to_shape", plns, isw,
                    create_wing_parts_between_planes(t, isw, plns, oks, nextId))

CreateWingPartsAlongCurve ==
    \E t \in ETypes, isw \in BOOLEAN, isc \in BOOLEAN, plns \in PlaneLists,
       oks \in OkLists :
        FactoryCall("create_wing_parts_along_curve", "to_shape", plns, isw /\ isc,
                    create_wing_parts_along_curve(t, isw, isc, plns, oks, nextId))

NextFactory ==
    \/ CreateSurfacePart
    \/ CreateWingPartByParams
    \/ CreateWingPartBySref
    \/ CreateWingPartBetweenGeom
    \/ CreateFrameBySref
    \/ CreateBulkheadBySref
    \/ CreateFloorBySref
    \/ CreateFramesBetweenPlanes
    \/ CreateFramesAtShapes
    \/ CreateWingPartsBetweenPlanes
    \/ CreateWingPartsAlongCurve

SpecFactory == InitFactory /\ [][NextFactory]_vars

SingleFactories ==
    {"create_surface_part", "create_wing_part_by_params", "create_wing_part_by_sref",
     "create_wing_part_between_geom", "create_frame_by_sref",
     "create_bulkhead_by_sref", "create_floor_by_sref"}

LoopFactories ==
    {"create_frames_between_planes", "create_frames_at_shapes",
     "create_wing_parts_between_planes", "create_wing_parts_along_curve"}

\* the coercion the called factory applies to its reference shape fails on it
rshape_fails ==
    /\ fcall.name \in SingleFactories
    /\ fcall.reached
    /\ IF fcall.coerces = "to_shape"
       THEN ShapeTools_to_shape(fcall.rshape, nextId).tag = "raise"
       ELSE ShapeTools_to_face(fcall.rshape, nextId).tag = "raise"

-----------------------------------------------------------------------------
(* C14: a part factory whose coercion of the reference shape fails aborts    *)
(* the construction and returns None (create_surface_part,                   *)
(* create_wing_part_by_params / by_sref / between_geom, create_frame_by_sref,*)
(* create_bulkhead_by_sref, create_floor_by_sref), and the create_frames_* / *)
(* create_wing_parts_* loops skip the item and go on: the error never        *)
(* propagates to the factory's caller.                                       *)
C14_FailedCoercionReturnsNone ==
    /\ rshape_fails => (fres.tag = "return" /\ fres.val = NoneEntity)
    /\ fcall.name \in LoopFactories => fres.tag = "return"

-----------------------------------------------------------------------------
(* C15: when the analyzer reports the shape not valid the walk is complete:  *)
(* every sub-shape under the shape, at any depth, that has a non-NoError     *)
(* status is in invalid_shapes, also when the sub-shapes between it and the  *)
(* shape have no error themselves.                                           *)

\* everything strictly under n
Descendants(n) == UNION {Under(children[n][k]) : k \in 1..Len(children[n])}

listed(n) == \E i \in 1..Len(invalid_shapes) : invalid_shapes[i] = n

C15_WalkComplete ==
    (built /\ ~is_valid) =>
        \A n \in Descendants(1) : flagged(n) => listed(n)

\* a flagged sub-shape whose only parent is an unflagged child of the shape
C15_Witness ==
    /\ built
    /\ ~is_valid
    /\ \E k \in 1..Len(children[1]) :
          LET c == children[1][k]
          IN  /\ ~flagged(c)
              /\ \E j \in 1..Len(children[c]) :
                    LET g == children[c][j]
                    IN  /\ flagged(g)
                        /\ \A m \in 1..Len(children[1]) : children[1][m] # g
                        /\ listed(g)

-----------------------------------------------------------------------------
(* C16: a sub-shape appears in invalid_shapes once per non-NoError status of *)
(* it and per path by which the walk reaches it: its number of entries is    *)
(* its number of non-NoError statuses times the number of paths from the     *)
(* shape to it, so one with only NoError statuses never appears.             *)

\* number of paths from m to n that start at the k-th or a later sub-shape of m
RECURSIVE paths_from(_, _, _)
paths_from(m, n, k) ==
    IF k > Len(children[m]) THEN 0
    ELSE (IF children[m][k] = n THEN 1 ELSE 0)
         + paths_from(children[m][k], n, 1)
         + paths_from(m, n, k + 1)

occurrences(n) == Cardinality({i \in 1..Len(invalid_shapes) : invalid_shapes[i] = n})

C16_Multiplicity ==
    (built /\ ~is_valid) =>
        \A n \in Nodes :
            /\ occurrences(n) = Len(bad_statuses(n)) * paths_from(1, n, 1)
            /\ ~flagged(n) => ~listed(n)

\* a sub-shape with two error statuses that the walk reaches by two paths
C16_Witness ==
    /\ built
    /\ ~is_valid
    /\ \E n \in Nodes :
          /\ Len(bad_statuses(n)) = 2
          /\ paths_from(1, n, 1) = 2
          /\ occurrences(n) = 4

=============================================================================
